---- MODULE Spec2Model ----
(***************************************************************************)
(* DUX Receivables API (src/main.py, src/schemas.py).                      *)
(*                                                                         *)
(* State: the process-wide store handle `db`, the "receivable" collection, *)
(* the request being served and the response it got.  One action per HTTP  *)
(* endpoint.  The module database.py (db, create_document, get_documents)  *)
(* is not part of the sources; its three names are modelled from the       *)
(* written description of the service.                                     *)
(*                                                                         *)
(* Python values: None is the empty tuple, an Optional[T] that is set is   *)
(* the one-element tuple <<t>>.  A form is a function whose DOMAIN is the  *)
(* set of parts the client sent.  Floats are modelled by integers.         *)
(***************************************************************************)
EXTENDS Integers, Sequences, FiniteSets, TLC

VARIABLES db, store, req, resp, filesRead

vars == <<db, store, req, resp, filesRead>>

----------------------------------------------------------------------------
(* Bounds of the model *)

\* documents the collection may hold
MaxDocs == 2
\* largest limit a client asks the list endpoint for
MaxLimit == 3
\* hexadecimal digits of a store identifier (24 in bson, scaled down)
OidLen == 2

----------------------------------------------------------------------------
(* Python values *)

None == <<>>

Some(x) == <<x>>

Min(a, b) == IF a <= b THEN a ELSE b

\* dict.get(key, default) on a form
FormGet(form, f, default) == IF f \in DOMAIN form THEN form[f] ELSE default

\* the argument bound to a str parameter of the handler
Text(form, f) == FormGet(form, f, "")

\* an Optional form part as an Optional value
FormOpt(form, f) == IF f \in DOMAIN form THEN Some(form[f]) ELSE None

----------------------------------------------------------------------------
(* Store identifiers: bson.ObjectId, a sequence of nibbles, and its string  *)

HexValue(c) ==
    CASE c = "0" -> 0
      [] c = "a" -> 10
      [] OTHER -> -1

HexDigit(n) == IF n = 10 THEN "a" ELSE "0"

IdChars == {"0", "a", "g"}

\* the strings a client may put in the path: of the right length, or too short
IdStrings == [1..OidLen -> IdChars] \cup [1..(OidLen - 1) -> {"a"}]

\* bson.ObjectId.is_valid on a string
ObjectIdValid(s) == Len(s) = OidLen /\ \A i \in 1..Len(s) : HexValue(s[i]) >= 0

\* ObjectId(s) for a valid s
ObjectIdOf(s) == [i \in 1..Len(s) |-> HexValue(s[i])]

\* str(oid)
ObjectIdStr(oid) == [i \in 1..Len(oid) |-> HexDigit(oid[i])]

AllObjectIds == [1..OidLen -> {0, 10}]

----------------------------------------------------------------------------
(* Text of the form fields and what the parsers make of it *)

\* the text of a float field, and float(text); "abc" is not a number
IsFloatText(t) == t \in {"1000", "800", "-5"}

FloatOf(t) ==
    CASE t = "1000" -> 1000
      [] t = "800" -> 800
      [] t = "-5" -> 0 - 5
      [] OTHER -> 0

\* the text of nf_date: YYYY-MM-DD, followed by a time of day when time # ""
DaysInMonth(y, m) ==
    IF m \in {4, 6, 9, 11} THEN 30
    ELSE IF m = 2 THEN (IF y % 4 = 0 /\ (y % 100 # 0 \/ y % 400 = 0) THEN 29 ELSE 28)
    ELSE 31

\* datetime.fromisoformat(text) returns (it raises ValueError otherwise)
IsIsoText(t) ==
    /\ t.year \in 1..9999
    /\ t.month \in 1..12
    /\ t.day \in 1..DaysInMonth(t.year, t.month)

\* the text read day first
DateOfDayFirst(t) == [year |-> t.year, month |-> t.day, day |-> t.month]

\* datetime.fromisoformat(text).date()
DateOf(t) == [year |-> t.year, month |-> t.month, day |-> t.day]

\* date.isoformat(): the text of a calendar date
IsoFormat(d) == [year |-> d.year, month |-> d.month, day |-> d.day, time |-> ""]

\* an e-mail address local@domain; domain "" is a text with no "@domain"
LowerCase(t) == IF t = "DUX.COM" THEN "dux.com" ELSE t

\* pydantic's EmailStr accepts the text
EmailValid(e) == e.local # "" /\ e.domain # ""

\* the value EmailStr stores: the domain in lower case
EmailNormalized(e) == [local |-> e.local, domain |-> LowerCase(e.domain)]

\* the size cap of safe_read
MAX == 10 * 1024 * 1024

\* an uploaded file part
FilePart(fname, n) == [filename |-> fname, content_type |-> "application/pdf", size |-> n]

ReceivableTypes == {"duplicata", "cartao", "boleto", "outro"}

Statuses == {"received", "in_review", "approved", "rejected"}

----------------------------------------------------------------------------
(* The requests of the model *)

RequiredFields ==
    {"name", "email", "whatsapp", "cnpj", "nf_number", "nf_value", "nf_date",
     "taker_cnpj", "requested_value", "bank", "agency", "account"}

FloatFields == {"nf_value", "requested_value"}

FileFields == {"nf_xml", "nf_pdf", "contract_pdf"}

\* a complete, valid submission without files
BaseForm ==
    [name |-> "Ana", email |-> [local |-> "ana", domain |-> "dux.com"],
     whatsapp |-> "5511", cnpj |-> "111", company |-> "Dux", role |-> "cfo",
     nf_number |-> "42", nf_series |-> "1", nf_value |-> "1000",
     nf_date |-> [year |-> 2024, month |-> 2, day |-> 29, time |-> ""],
     taker_cnpj |-> "222", requested_value |-> "800", bank |-> "001",
     agency |-> "0001", account |-> "12345", receivable_type |-> "boleto",
     notes |-> "urgent"]

\* the form (or dict) without the key f
Without(form, f) == [g \in DOMAIN form \ {f} |-> form[g]]

\* the form (or dict) with the key f set to v
With(form, f, v) == [g \in DOMAIN form \cup {f} |-> IF g = f THEN v ELSE form[g]]

DateTexts ==
    {[year |-> 2024, month |-> 2, day |-> 29, time |-> "10:30:00"],
     [year |-> 2024, month |-> 13, day |-> 1, time |-> ""],
     [year |-> 2023, month |-> 2, day |-> 29, time |-> ""]}

EmailTexts ==
    {[local |-> "ana", domain |-> "DUX.COM"], [local |-> "ana", domain |-> ""]}

SmallFile == FilePart("nf.pdf", 2048)

EmptyFile == FilePart("empty.pdf", 0)

FullFile == FilePart("full.pdf", MAX)

BigFile == FilePart("big.pdf", MAX + 1)

\* the base form changed in at most one part
OneChange ==
    {BaseForm}
    \cup {Without(BaseForm, f) : f \in DOMAIN BaseForm \ {"role", "nf_series", "notes"}}
    \cup {With(BaseForm, f, t) : f \in FloatFields, t \in {"-5", "abc"}}
    \cup {With(BaseForm, "nf_date", t) : t \in DateTexts}
    \cup {With(BaseForm, "email", t) : t \in EmailTexts}
    \cup {With(BaseForm, "receivable_type", "cheque")}
    \cup {With(BaseForm, "status", "approved"), With(BaseForm, "estimated_date", "2030-01-01")}
    \cup {With(BaseForm, "nf_pdf", FullFile), With(BaseForm, "contract_pdf", EmptyFile),
          With(BaseForm, "attachments", <<SmallFile>>)}

\* one more change: a file part over the cap
Oversized ==
    {With(BaseForm, f, BigFile) : f \in FileFields}
    \cup {With(With(BaseForm, "nf_xml", SmallFile), "contract_pdf", BigFile)}
    \cup {With(form, "attachments", <<SmallFile, BigFile>>) : form \in OneChange}

Forms == OneChange \cup Oversized

----------------------------------------------------------------------------
(* POST /api/receivables *)

\* account declared with a default instead of Form(...)
BindsWithDefaultAccount(form) ==
    /\ (RequiredFields \ {"account"}) \subseteq DOMAIN form
    /\ \A f \in FloatFields : IsFloatText(form[f])

\* FastAPI binds the form to the handler's parameters: every Form(...) part
\* is there and the float parts are numbers; otherwise it answers 422 itself
BindsToSignature(form) ==
    /\ RequiredFields \subseteq DOMAIN form
    /\ \A f \in FloatFields : IsFloatText(form[f])

\* the attachments are never passed to file_to_ref
FilesWithoutAttachments(form) ==
    FormOpt(form, "nf_xml") \o FormOpt(form, "nf_pdf") \o FormOpt(form, "contract_pdf")

\* the file parts in the order the handler reads them
FilesInOrder(form) ==
    FormOpt(form, "nf_xml") \o FormOpt(form, "nf_pdf") \o FormOpt(form, "contract_pdf")
        \o FormGet(form, "attachments", <<>>)

\* safe_read raises 413 on the file
TooLarge(file) == file.size > MAX

\* position of the first file safe_read rejects, 0 when it rejects none
FirstTooLarge(files) ==
    IF \E i \in 1..Len(files) : TooLarge(files[i])
    THEN CHOOSE i \in 1..Len(files) :
            TooLarge(files[i]) /\ \A j \in 1..(i - 1) : ~TooLarge(files[j])
    ELSE 0

\* file_to_ref of a file that was sent and passed safe_read
FileToRef(file) ==
    [filename |-> file.filename, content_type |-> file.content_type,
     size |-> IF file.size > 0 THEN Some(file.size) ELSE None, url |-> None]

\* file_to_ref of an optional part
OptFileToRef(form, f) == IF f \in DOMAIN form THEN Some(FileToRef(form[f])) ELSE None

\* attach_refs
AttachRefs(form) ==
    IF "attachments" \in DOMAIN form /\ Len(form["attachments"]) > 0
    THEN Some([i \in 1..Len(form["attachments"]) |-> FileToRef(form["attachments"][i])])
    ELSE None

\* the status is taken from the form when the client sends one
MetaFromForm(form) ==
    [status |-> FormGet(form, "status", "received"), estimated_date |-> None]

\* the two fields the handler sets itself
MetaFields(form) == [status |-> "received", estimated_date |-> None]

\* the payload dict, for a form that binds and whose nf_date parses
Payload(form) ==
    [name |-> Text(form, "name"),
     email |-> form["email"],
     whatsapp |-> Text(form, "whatsapp"),
     cnpj |-> Text(form, "cnpj"),
     company |-> FormOpt(form, "company"),
     role |-> FormOpt(form, "role"),
     nf_number |-> Text(form, "nf_number"),
     nf_series |-> FormOpt(form, "nf_series"),
     nf_value |-> FloatOf(form["nf_value"]),
     nf_date |-> DateOf(form["nf_date"]),
     taker_cnpj |-> Text(form, "taker_cnpj"),
     nf_xml |-> OptFileToRef(form, "nf_xml"),
     nf_pdf |-> OptFileToRef(form, "nf_pdf"),
     contract_pdf |-> OptFileToRef(form, "contract_pdf"),
     attachments |-> AttachRefs(form),
     requested_value |-> FloatOf(form["requested_value"]),
     bank |-> Text(form, "bank"),
     agency |-> Text(form, "agency"),
     account |-> Text(form, "account"),
     receivable_type |-> FormGet(form, "receivable_type", "duplicata"),
     notes |-> FormOpt(form, "notes"),
     status |-> MetaFields(form).status,
     estimated_date |-> MetaFields(form).estimated_date]

\* Receivable(**payload) does not raise
ReceivableValid(payload) ==
    /\ EmailValid(payload.email)
    /\ payload.receivable_type \in ReceivableTypes
    /\ payload.status \in Statuses

\* the Receivable instance as a dict
Receivable(payload) ==
    [f \in DOMAIN payload \cup {"created_at", "updated_at"} |->
        IF f \in {"created_at", "updated_at"} THEN None
        ELSE IF f = "email" THEN EmailNormalized(payload.email)
        ELSE payload[f]]

\* the identifier the store gives the next document
NewId(docs) ==
    CHOOSE oid \in AllObjectIds : \A i \in 1..Len(docs) : docs[i]["_id"] # oid

\* create_document: the collection after the insert
CreateDocument(docs, data) == Append(docs, With(data, "_id", NewId(docs)))

Response(op, code, body) == [op |-> op, status |-> code, body |-> body]

Detail(text) == [detail |-> text]

\* the store handle is looked at only after the files were read
create_receivable_reads_first(form) ==
    /\ req' = [op |-> "create", form |-> form]
    /\ UNCHANGED db
    /\ IF ~BindsToSignature(form)
       THEN /\ resp' = Response("create", 422, Detail("Field required"))
            /\ filesRead' = 0
            /\ UNCHANGED store
       ELSE IF FirstTooLarge(FilesInOrder(form)) > 0
       THEN /\ resp' = Response("create", 413, Detail("File too large"))
            /\ filesRead' = FirstTooLarge(FilesInOrder(form))
            /\ UNCHANGED store
       ELSE IF db = None
       THEN /\ resp' = Response("create", 500, Detail("Database not configured"))
            /\ filesRead' = Len(FilesInOrder(form))
            /\ UNCHANGED store
       ELSE IF ~IsIsoText(form["nf_date"])
       THEN /\ resp' = Response("create", 500, Detail("Internal Server Error"))
            /\ filesRead' = Len(FilesInOrder(form))
            /\ UNCHANGED store
       ELSE IF ~ReceivableValid(Payload(form))
       THEN /\ resp' = Response("create", 422, Detail("validation error for Receivable"))
            /\ filesRead' = Len(FilesInOrder(form))
            /\ UNCHANGED store
       ELSE /\ Len(store) < MaxDocs
            /\ store' = CreateDocument(store, Receivable(Payload(form)))
            /\ resp' = Response("create", 200,
                                [id |-> ObjectIdStr(NewId(store)), status |-> "ok"])
            /\ filesRead' = Len(FilesInOrder(form))

create_receivable(form) ==
    /\ req' = [op |-> "create", form |-> form]
    /\ UNCHANGED db
    /\ IF ~BindsToSignature(form)
       THEN /\ resp' = Response("create", 422, Detail("Field required"))
            /\ filesRead' = 0
            /\ UNCHANGED store
       ELSE IF db = None
       THEN /\ resp' = Response("create", 500, Detail("Database not configured"))
            /\ filesRead' = 0
            /\ UNCHANGED store
       ELSE IF FirstTooLarge(FilesInOrder(form)) > 0
       THEN /\ resp' = Response("create", 413, Detail("File too large"))
            /\ filesRead' = FirstTooLarge(FilesInOrder(form))
            /\ UNCHANGED store
       ELSE IF ~IsIsoText(form["nf_date"])
       THEN /\ resp' = Response("create", 500, Detail("Internal Server Error"))
            /\ filesRead' = Len(FilesInOrder(form))
            /\ UNCHANGED store
       ELSE IF ~ReceivableValid(Payload(form))
       THEN /\ resp' = Response("create", 422, Detail("validation error for Receivable"))
            /\ filesRead' = Len(FilesInOrder(form))
            /\ UNCHANGED store
       ELSE /\ Len(store) < MaxDocs
            /\ store' = CreateDocument(store, Receivable(Payload(form)))
            /\ resp' = Response("create", 200,
                                [id |-> ObjectIdStr(NewId(store)), status |-> "ok"])
            /\ filesRead' = Len(FilesInOrder(form))

----------------------------------------------------------------------------
(* GET /api/receivables/{receivable_id} *)

\* db["receivable"].find_one({"_id": oid}): the positions of the matches
Matches(docs, oid) == {i \in 1..Len(docs) : docs[i]["_id"] = oid}

FindOne(docs, oid) ==
    IF Matches(docs, oid) = {} THEN None
    ELSE Some(docs[CHOOSE i \in Matches(docs, oid) : \A j \in Matches(docs, oid) : i <= j])

\* doc["id"] = str(doc.pop("_id"))
PopId(doc) == With(Without(doc, "_id"), "id", ObjectIdStr(doc["_id"]))

\* the document the handler finds: None when ObjectId() raises or nothing matches
Lookup(docs, id) == IF ObjectIdValid(id) THEN FindOne(docs, ObjectIdOf(id)) ELSE None

\* ObjectId() raising is not caught
GetResponseUncaught(handle, docs, id) ==
    IF handle = None THEN Response("get", 500, Detail("Database not configured"))
    ELSE IF ~ObjectIdValid(id) THEN Response("get", 500, Detail("Internal Server Error"))
    ELSE IF Lookup(docs, id) = None THEN Response("get", 404, Detail("Not found"))
    ELSE Response("get", 200, PopId(Lookup(docs, id)[1]))

\* the handler's answer
GetResponse(handle, docs, id) ==
    IF handle = None THEN Response("get", 500, Detail("Database not configured"))
    ELSE IF Lookup(docs, id) = None THEN Response("get", 404, Detail("Not found"))
    ELSE Response("get", 200, PopId(Lookup(docs, id)[1]))

\* the pop of "_id" reaches the stored document
get_receivable_pops_stored(id) ==
    /\ req' = [op |-> "get", id |-> id]
    /\ resp' = GetResponse(db, store, id)
    /\ filesRead' = 0
    /\ store' = IF db # None /\ Lookup(store, id) # None
                THEN [i \in 1..Len(store) |->
                        IF store[i] = Lookup(store, id)[1] THEN PopId(store[i]) ELSE store[i]]
                ELSE store
    /\ UNCHANGED db

get_receivable(id) ==
    /\ req' = [op |-> "get", id |-> id]
    /\ resp' = GetResponse(db, store, id)
    /\ filesRead' = 0
    /\ UNCHANGED <<db, store>>

----------------------------------------------------------------------------
(* GET /api/receivables?limit=n *)

\* limit: int = 50
DefaultLimit == 50

\* get_documents("receivable", {}, limit): at most limit documents of the collection
GetDocuments(docs, limit) == SubSeq(docs, 1, Min(limit, Len(docs)))

\* est = d.get("estimated_date"), as its ISO text when it is a date
EstimatedText(doc) ==
    IF doc["estimated_date"] = None THEN None
    ELSE Some(IsoFormat(doc["estimated_date"][1]))

ReceivableListItem(doc) ==
    [id |-> ObjectIdStr(doc["_id"]),
     nf_value |-> doc["nf_value"],
     requested_value |-> doc["requested_value"],
     estimated_date |-> EstimatedText(doc),
     status |-> doc["status"]]

\* the items built from the documents the store returned
ListItems(docs) == [i \in 1..Len(docs) |-> ReceivableListItem(docs[i])]

\* the limit is not passed on to get_documents
list_receivables_unlimited(query) ==
    /\ req' = [op |-> "list", query |-> query]
    /\ resp' = IF db = None
               THEN Response("list", 500, Detail("Internal Server Error"))
               ELSE Response("list", 200, ListItems(GetDocuments(store, DefaultLimit)))
    /\ filesRead' = 0
    /\ UNCHANGED <<db, store>>

list_receivables(query) ==
    /\ req' = [op |-> "list", query |-> query]
    /\ resp' = IF db = None
               THEN Response("list", 500, Detail("Internal Server Error"))
               ELSE Response("list", 200,
                             ListItems(GetDocuments(store, FormGet(query, "limit", DefaultLimit))))
    /\ filesRead' = 0
    /\ UNCHANGED <<db, store>>

\* the query strings of the model: no limit, or a limit up to MaxLimit
Queries == {<<>>} \cup {[limit |-> n] : n \in 0..MaxLimit}

----------------------------------------------------------------------------
(* GET / and GET /test *)

read_root ==
    /\ req' = [op |-> "root"]
    /\ resp' = Response("root", 200, [message |-> "DUX Backend Running"])
    /\ filesRead' = 0
    /\ UNCHANGED <<db, store>>

\* the names db.list_collection_names() returns
CollectionNames(docs) == IF Len(docs) > 0 THEN <<"receivable">> ELSE <<>>

\* listing |-> FALSE: db.list_collection_names() raised
test_database(listing, url, dbname) ==
    /\ req' = [op |-> "test"]
    /\ resp' = Response("test", 200,
           [backend |-> "Running",
            database |-> IF db = None THEN "Available but not initialized"
                         ELSE IF listing THEN "Connected & Working"
                         ELSE "Connected but Error",
            database_url |-> IF url THEN "Set" ELSE "Not Set",
            database_name |-> IF dbname THEN "Set" ELSE "Not Set",
            connection_status |-> IF db = None THEN "Not Connected" ELSE "Connected",
            collections |-> IF db # None /\ listing THEN CollectionNames(store) ELSE <<>>])
    /\ filesRead' = 0
    /\ UNCHANGED <<db, store>>

----------------------------------------------------------------------------
Init ==
    /\ db \in {None, Some("dux")}
    /\ store = <<>>
    /\ req = [op |-> "none"]
    /\ resp = Response("none", 0, None)
    /\ filesRead = 0

Next ==
    \/ read_root
    \/ \E listing, url, dbname \in BOOLEAN : test_database(listing, url, dbname)
    \/ \E query \in Queries : list_receivables(query)
    \/ \E id \in IdStrings : get_receivable(id)
    \/ \E form \in Forms : create_receivable(form)

Spec == Init /\ [][Next]_vars

----------------------------------------------------------------------------
(* Properties *)

\* the last request was a POST and a document was created for it
Created == req.op = "create" /\ resp.op = "create" /\ resp.status = 200

\* what GET /api/receivables/{id} answers now for the id the POST returned
ReadBack == GetResponse(db, store, resp.body.id)

\* a form has a file part over 10 MiB
HasOversizedFile(form) ==
    \/ \E f \in FileFields : f \in DOMAIN form /\ form[f].size > 10 * 1024 * 1024
    \/ /\ "attachments" \in DOMAIN form
       /\ \E i \in 1..Len(form["attachments"]) : form["attachments"][i].size > 10 * 1024 * 1024

\* the twelve fields a submission must carry
MustBeSent ==
    {"name", "email", "whatsapp", "cnpj", "nf_number", "nf_value", "nf_date",
     "taker_cnpj", "requested_value", "bank", "agency", "account"}

\* the request reaches the handler: every required part, and numbers where numbers go
ReachesHandler(form) ==
    /\ MustBeSent \subseteq DOMAIN form
    /\ form["nf_value"] # "abc"
    /\ form["requested_value"] # "abc"

\* the text fields of the record are those of the form
TextFieldsEcho(rec, form) ==
    /\ \A f \in {"name", "whatsapp", "cnpj", "nf_number", "taker_cnpj", "bank", "agency", "account"} :
          rec[f] = form[f]
    /\ \A f \in {"company", "role", "nf_series", "notes"} :
          rec[f] = IF f \in DOMAIN form THEN <<form[f]>> ELSE <<>>
    /\ "receivable_type" \in DOMAIN form => rec["receivable_type"] = form["receivable_type"]
    /\ rec["nf_value"] = FloatOf(form["nf_value"])
    /\ rec["requested_value"] = FloatOf(form["requested_value"])

C2_AlwaysTooLargeAsStated ==
    (req.op = "create" /\ HasOversizedFile(req.form)) => resp.status = 413

\* C2 amended: a POST with a file part over 10 MiB never inserts a document;
\* it is answered 413 when it reaches the handler and the store is configured,
\* whatever nf_date, email and receivable_type are, 422 when a required part
\* is missing or a number is malformed, and 500 when the store is not
\* configured.
C2_TooLarge ==
    [][(req'.op = "create" /\ HasOversizedFile(req'.form)) =>
          /\ store' = store
          /\ resp'.status = IF ~ReachesHandler(req'.form) THEN 422
                            ELSE IF db = None THEN 500
                            ELSE 413]_vars

\* an oversized attachment came with an nf_date that does not parse: 413
C2_Witness ==
    /\ req.op = "create"
    /\ HasOversizedFile(req.form)
    /\ "nf_date" \in DOMAIN req.form
    /\ req.form["nf_date"].month = 13
    /\ resp.status = 413
    /\ filesRead = 2

\* C3 as stated: a POST that reaches the handler with the store configured
\* and no oversized file, and whose nf_date does not parse as an ISO date, is
\* answered 422.
C3_MalformedDateIs422 ==
    (/\ req.op = "create"
     /\ db # None
     /\ ReachesHandler(req.form)
     /\ ~HasOversizedFile(req.form)
     /\ ~IsIsoText(req.form["nf_date"])) => resp.status = 422

\* C4: a POST that omits a required field is answered 422 and leaves the
\* collection as it was.
C4_MissingRequired ==
    [][(req'.op = "create" /\ ~(MustBeSent \subseteq DOMAIN req'.form)) =>
          (resp'.status = 422 /\ store' = store)]_vars

\* nf_number was omitted, with documents in the collection
C4_Witness ==
    /\ req.op = "create"
    /\ "nf_number" \notin DOMAIN req.form
    /\ resp.status = 422
    /\ Len(store) > 0

\* C5 as stated: every stored document has non-negative values, a type among
\* the four types and a status among the four statuses.
C5_StoredValuesValid ==
    \A i \in 1..Len(store) :
        /\ store[i]["nf_value"] >= 0
        /\ store[i]["requested_value"] >= 0
        /\ store[i]["receivable_type"] \in {"duplicata", "cartao", "boleto", "outro"}
        /\ store[i]["status"] \in {"received", "in_review", "approved", "rejected"}

\* an id of the wrong length or with a character that is not a hex digit
Malformed(id) == Len(id) # OidLen \/ \E i \in 1..Len(id) : id[i] \notin {"0", "a"}

C8_FreshRecord ==
    Created =>
        /\ store[Len(store)]["status"] = "received"
        /\ store[Len(store)]["estimated_date"] = <<>>
        /\ ReadBack.body["status"] = "received"

\* a document was created from a form that carried a status part
C8_Witness == Created /\ "status" \in DOMAIN req.form

\* C9: no step changes or removes a stored document; the collection grows
\* only by a successful POST, by one document, and every status stays
\* "received".
C9_StoreOnlyGrows ==
    [][/\ Len(store') >= Len(store)
       /\ SubSeq(store', 1, Len(store)) = store
       /\ store' # store =>
             /\ Len(store') = Len(store) + 1
             /\ resp'.op = "create"
             /\ resp'.status = 200
       /\ (resp'.op = "create" /\ resp'.status = 200) => Len(store') = Len(store) + 1
       /\ \A i \in 1..Len(store') : store'[i]["status"] = "received"]_vars

\* a stored document was read by id from a collection of two
C9_Witness == req.op = "get" /\ resp.status = 200 /\ Len(store) = 2

\* C10: with no store handle, a POST that reaches the handler and a GET by id
\* are answered 500; no file is read and nothing is stored.
C10_NoStore ==
    (/\ db = None
     /\ \/ req.op = "get"
        \/ req.op = "create" /\ ReachesHandler(req.form)) =>
        (resp.status = 500 /\ filesRead = 0 /\ store = <<>>)

\* with no store handle, a POST with an oversized file was answered 500
C10_Witness ==
    /\ db = None
    /\ req.op = "create"
    /\ ReachesHandler(req.form)
    /\ HasOversizedFile(req.form)
    /\ resp.status = 500

====
